---- MODULE Spec2Model ----
(***************************************************************************)
(* Model of scripts/pixi_to_osv.py: the conversion of a pixi.lock document *)
(* into OSV-Scanner lockfiles.                                             *)
(*                                                                         *)
(* Strings are sequences of one-character strings, so that the parsing,   *)
(* the formatting and the substring tests of the script are computed       *)
(* character by character.  The characters are ASCII without newline,      *)
(* brackets and white space.                                               *)
(***************************************************************************)
EXTENDS Integers, Sequences, FiniteSets, TLC

VARIABLES
    conda_url,   \* the argument of extract_package_info under study
    shape,       \* how conda_url was built: <<name, version>> or <<>>
    info,        \* the pair returned by extract_package_info, <<>> before
    pc,          \* position in main
    lock,        \* pixi.lock on disk: [exists, parses, data]
    data,        \* main's data
    packages,    \* main's packages
    printed,     \* the error messages printed so far
    calls,       \* how often extract_package_info has been called by main
    emitted,     \* emitter name -> [input, content, count] once it has run
    written,     \* the output files, in the order they were created
    exit_code    \* -1 while running, 1 after sys.exit(1), 0 at the end

vars == <<conda_url, shape, info, pc, lock, data, packages, printed, calls,
          emitted, written, exit_code>>

parse_vars == <<conda_url, shape, info>>
main_vars ==
    <<pc, lock, data, packages, printed, calls, emitted, written, exit_code>>

-----------------------------------------------------------------------------
(* Bounds of the model                                                     *)

MaxTokens == 5      \* tokens in a free-form locator
MaxNameSegs == 2    \* hyphen-joined segments in a well-formed name
MaxEntries == 2     \* package entries in a lock document

-----------------------------------------------------------------------------
(* Characters and strings                                                  *)

Digits == {"0","1","2","3","4","5","6","7","8","9"}

LowerLetters ==
    {"a","b","c","d","e","f","g","h","i","j","k","l","m",
     "n","o","p","q","r","s","t","u","v","w","x","y","z"}

UpperLetters ==
    {"A","B","C","D","E","F","G","H","I","J","K","L","M",
     "N","O","P","Q","R","S","T","U","V","W","X","Y","Z"}

Letters == LowerLetters \cup UpperLetters

\* the characters the regular expression class \w matches
WordChars == Letters \cup Digits \cup {"_"}

\* urllib.parse.scheme_chars
scheme_chars == Letters \cup Digits \cup {"+", "-", "."}

UpperSeq ==
    <<"A","B","C","D","E","F","G","H","I","J","K","L","M",
      "N","O","P","Q","R","S","T","U","V","W","X","Y","Z">>

LowerSeq ==
    <<"a","b","c","d","e","f","g","h","i","j","k","l","m",
      "n","o","p","q","r","s","t","u","v","w","x","y","z">>

\* str.lower on one character
LowerChar(c) ==
    IF c \in UpperLetters
    THEN LowerSeq[CHOOSE i \in 1..26 : UpperSeq[i] = c]
    ELSE c

\* str.lower
Lower(s) == [i \in 1..Len(s) |-> LowerChar(s[i])]

\* s[from:] with a 1-based first index
Tail_(s, from) == SubSeq(s, from, Len(s))

\* s.startswith(p)
StartsWith(s, p) == Len(p) <= Len(s) /\ SubSeq(s, 1, Len(p)) = p

\* s.endswith(p)
EndsWith(s, p) ==
    Len(p) <= Len(s) /\ SubSeq(s, Len(s) - Len(p) + 1, Len(s)) = p

\* p in s
Contains(s, p) ==
    \E i \in 1..(Len(s) - Len(p) + 1) : SubSeq(s, i, i + Len(p) - 1) = p

\* s.find(c, from): the 1-based index of the first c at or after from, 0 if none
Find(s, c, from) ==
    IF \E i \in from..Len(s) : s[i] = c
    THEN CHOOSE i \in from..Len(s) :
             s[i] = c /\ \A j \in from..(i - 1) : s[j] # c
    ELSE 0

\* s.rfind(c): the 1-based index of the last c, 0 if none
RFind(s, c) ==
    IF \E i \in 1..Len(s) : s[i] = c
    THEN CHOOSE i \in 1..Len(s) :
             s[i] = c /\ \A j \in (i + 1)..Len(s) : s[j] # c
    ELSE 0

RECURSIVE Split(_, _)
\* s.split(c)
Split(s, c) ==
    LET i == Find(s, c, 1)
    IN  IF i = 0 THEN <<s>>
        ELSE <<SubSeq(s, 1, i - 1)>> \o Split(Tail_(s, i + 1), c)

RECURSIVE Join(_, _)
\* c.join(parts)
Join(parts, c) ==
    IF Len(parts) = 0 THEN <<>>
    ELSE IF Len(parts) = 1 THEN parts[1]
    ELSE parts[1] \o <<c>> \o Join(Tail(parts), c)

RECURSIVE Flatten(_)
\* concatenation of a sequence of strings
Flatten(ss) == IF ss = <<>> THEN <<>> ELSE Head(ss) \o Flatten(Tail(ss))

-----------------------------------------------------------------------------
(* urlparse(conda_url).path                                                *)

\* urllib.parse.uses_params
uses_params ==
    { <<>>,
      <<"f","t","p">>,
      <<"h","d","l">>,
      <<"p","r","o","s","p","e","r","o">>,
      <<"h","t","t","p">>,
      <<"i","m","a","p">>,
      <<"h","t","t","p","s">>,
      <<"s","h","t","t","p">>,
      <<"r","t","s","p">>,
      <<"r","t","s","p","s">>,
      <<"r","t","s","p","u">>,
      <<"s","i","p">>,
      <<"s","i","p","s">>,
      <<"m","m","s">>,
      <<"s","f","t","p">>,
      <<"t","e","l">> }

\* urlsplit: the scheme is the text before the first ':' when that text starts
\* with a letter and holds only scheme characters
HasScheme(url) ==
    LET i == Find(url, ":", 1)
    IN  /\ i > 1
        /\ url[1] \in Letters
        /\ \A j \in 1..(i - 1) : url[j] \in scheme_chars

UrlScheme(url) ==
    IF HasScheme(url) THEN Lower(SubSeq(url, 1, Find(url, ":", 1) - 1))
    ELSE <<>>

AfterScheme(url) ==
    IF HasScheme(url) THEN Tail_(url, Find(url, ":", 1) + 1) ELSE url

\* urlsplit: after a leading '//' the network location runs to the first of / ? #
AfterNetloc(url) ==
    IF StartsWith(url, <<"/", "/">>)
    THEN LET ends == {i \in 3..Len(url) : url[i] \in {"/", "?", "#"}}
         IN  IF ends = {} THEN <<>>
             ELSE Tail_(url, CHOOSE i \in ends : \A j \in ends : i <= j)
    ELSE url

\* s.split(c, 1)[0]
Before(s, c) ==
    LET i == Find(s, c, 1) IN IF i = 0 THEN s ELSE SubSeq(s, 1, i - 1)

\* urlparse's _splitparams: the parameters start at the first ';' of the last
\* path segment
SplitParams(url) ==
    LET slash == RFind(url, "/")
        i == IF slash > 0 THEN Find(url, ";", slash) ELSE Find(url, ";", 1)
    IN  IF i = 0 THEN url ELSE SubSeq(url, 1, i - 1)

UrlPath(url) ==
    LET p == Before(Before(AfterNetloc(AfterScheme(url)), "#"), "?")
    IN  IF UrlScheme(url) \in uses_params /\ Contains(p, <<";">>)
        THEN SplitParams(p)
        ELSE p

\* Path(p).name: the last component that is neither empty nor '.'
PathName(p) ==
    LET comps == Split(p, "/")
        kept == {i \in 1..Len(comps) : comps[i] # <<>> /\ comps[i] # <<".">>}
    IN  IF kept = {} THEN <<>>
        ELSE comps[CHOOSE i \in kept : \A j \in kept : j <= i]

-----------------------------------------------------------------------------
(* extract_package_info                                                    *)

unknown == <<"u","n","k","n","o","w","n">>

dot_conda == <<".","c","o","n","d","a">>

dot_tar_bz2 == <<".","t","a","r",".","b","z","2">>

\* re.sub(r'\.(conda|tar\.bz2)$', '', filename)
StripExtension(filename) ==
    IF EndsWith(filename, dot_conda)
    THEN SubSeq(filename, 1, Len(filename) - Len(dot_conda))
    ELSE IF EndsWith(filename, dot_tar_bz2)
    THEN SubSeq(filename, 1, Len(filename) - Len(dot_tar_bz2))
    ELSE filename

\* \d+(?:\.\d+)* matches the whole of s
IsDottedNumber(s) ==
    LET runs == Split(s, ".")
    IN  \A i \in 1..Len(runs) :
            runs[i] # <<>> /\ \A j \in 1..Len(runs[i]) : runs[i][j] \in Digits

\* \d+(?:\.\d+)*(?:\w+)? matches the whole of s
IsVersionToken(s) ==
    \E k \in 1..Len(s) :
        /\ IsDottedNumber(SubSeq(s, 1, k))
        /\ \A j \in (k + 1)..Len(s) : s[j] \in WordChars

\* the second group of ^(.+?)-(\d+(?:\.\d+)*(?:\w+)?)-.*$ when the first
\* group is filename[:n]: the text between the hyphen at n+1 and the next one
VersionAfter(filename, n) ==
    SubSeq(filename, n + 2, Find(filename, "-", n + 2) - 1)

\* the lengths n >= 1 of a first group with which the pattern matches
NameEnds(filename) ==
    {n \in 1..Len(filename) :
        /\ n + 1 <= Len(filename)
        /\ filename[n + 1] = "-"
        /\ Find(filename, "-", n + 2) > 0
        /\ IsVersionToken(VersionAfter(filename, n))}

\* re.match(...): the pattern matches
PatternMatches(filename) == NameEnds(filename) # {}

\* the non-greedy first group takes the shortest name that lets the rest match
PatternGroups(filename) ==
    LET n == CHOOSE m \in NameEnds(filename) :
                 \A k \in NameEnds(filename) : m <= k
    IN  <<SubSeq(filename, 1, n), VersionAfter(filename, n)>>

\* re.match(r'^\d+', part)
BeginsWithDigit(part) == Len(part) > 0 /\ part[1] \in Digits

RECURSIVE FallbackScanForward(_, _, _)
\* a scan that starts at the second part and goes toward the last
FallbackScanForward(filename, parts, i) ==
    LET k == Len(parts) + 2 - i
    IN  IF i < 2 THEN <<filename, unknown>>
        ELSE IF BeginsWithDigit(parts[k])
        THEN <<Join(SubSeq(parts, 1, k - 1), "-"), parts[k]>>
        ELSE FallbackScanForward(filename, parts, i - 1)

RECURSIVE FallbackScan(_, _, _)
\* for i in range(len(parts)-1, 0, -1), with 1-based i: the loop stops before
\* Python index 0, the first part
FallbackScan(filename, parts, i) ==
    IF i < 2 THEN <<filename, unknown>>
    ELSE IF BeginsWithDigit(parts[i])
    THEN <<Join(SubSeq(parts, 1, i - 1), "-"), parts[i]>>
    ELSE FallbackScan(filename, parts, i - 1)

RECURSIVE ScanToFirst(_, _, _)
\* a scan that goes on to the first part: range(len(parts)-1, -1, -1)
ScanToFirst(filename, parts, i) ==
    IF i < 1 THEN <<filename, unknown>>
    ELSE IF BeginsWithDigit(parts[i])
    THEN <<Join(SubSeq(parts, 1, i - 1), "-"), parts[i]>>
    ELSE ScanToFirst(filename, parts, i - 1)

FallbackToFirst(filename) ==
    LET parts == Split(filename, "-")
    IN  IF Len(parts) >= 2
        THEN ScanToFirst(filename, parts, Len(parts))
        ELSE <<filename, unknown>>

\* lines 46-56
Fallback(filename) ==
    LET parts == Split(filename, "-")
    IN  IF Len(parts) >= 2
        THEN FallbackScan(filename, parts, Len(parts))
        ELSE <<filename, unknown>>

\* lines 32-35
CleanFilename(url) == StripExtension(PathName(UrlPath(url)))

extract_package_info(url) ==
    LET filename == CleanFilename(url)
    IN  IF PatternMatches(filename) THEN PatternGroups(filename)
        ELSE Fallback(filename)

-----------------------------------------------------------------------------
(* extract_packages_from_pixi_lock                                         *)
(*                                                                         *)
(* A parsed document is [keys, environments]: keys are the top-level keys  *)
(* of the mapping, environments the items of data['environments'] in       *)
(* mapping order, each [name, has_packages, packages], packages the items  *)
(* of env_data['packages'] in mapping order, each [platform, entries],     *)
(* and an entry is [kind, url]: it has the 'conda' key iff kind = "conda". *)

no_environments == "No environments found in pixi.lock"

\* lines 76-83
Record(env_name, platform, entry) ==
    LET nv == extract_package_info(entry.url)
    IN  [name |-> nv[1], version |-> nv[2], environment |-> env_name,
         platform |-> platform, url |-> entry.url, ecosystem |-> "conda"]

\* a walker that takes every entry
AnyKey(package_entry) == TRUE

\* line 72
HasCondaKey(package_entry) == package_entry.kind = "conda"

RECURSIVE WalkEntries(_, _, _)
\* lines 71-83: for package_entry in platform_packages
WalkEntries(env_name, platform, entries) ==
    IF entries = <<>> THEN <<>>
    ELSE (IF HasCondaKey(Head(entries))
          THEN <<Record(env_name, platform, Head(entries))>>
          ELSE <<>>)
         \o WalkEntries(env_name, platform, Tail(entries))

RECURSIVE WalkPlatforms(_, _)
\* lines 70-83: for platform, platform_packages in env_data['packages'].items()
WalkPlatforms(env_name, plats) ==
    IF plats = <<>> THEN <<>>
    ELSE WalkEntries(env_name, Head(plats).platform, Head(plats).entries)
         \o WalkPlatforms(env_name, Tail(plats))

RECURSIVE WalkEnvironments(_)
\* lines 66-83: for env_name, env_data in data['environments'].items()
WalkEnvironments(envs) ==
    IF envs = <<>> THEN <<>>
    ELSE (IF ~Head(envs).has_packages THEN <<>>
          ELSE WalkPlatforms(Head(envs).name, Head(envs).packages))
         \o WalkEnvironments(Tail(envs))

\* an early return that prints nothing
SilentWithoutEnvironments(d) ==
    [packages |-> <<>>, printed |-> <<>>, calls |-> 0]

\* lines 62-64: what the function does when 'environments' is not in data
WithoutEnvironments(d) ==
    [packages |-> <<>>, printed |-> <<no_environments>>, calls |-> 0]

\* the function's result, what it prints and how often it calls
\* extract_package_info (once per appended record)
extract_packages_from_pixi_lock(d) ==
    IF "environments" \notin d.keys THEN WithoutEnvironments(d)
    ELSE LET pkgs == WalkEnvironments(d.environments)
         IN  [packages |-> pkgs, printed |-> <<>>, calls |-> Len(pkgs)]

-----------------------------------------------------------------------------
(* The emitters                                                            *)

numpy == <<"n","u","m","p","y">>

python_indicators ==
    {
      <<"p","y","t","h","o","n">>,
      <<"p","y","-">>,
      <<"p","i","p">>,
      <<"s","e","t","u","p","t","o","o","l","s">>,
      <<"w","h","e","e","l">>,
      <<"c","e","r","t","i","f","i">>,
      <<"c","h","a","r","s","e","t","-","n","o","r","m","a","l","i","z","e","r">>,
      <<"i","d","n","a">>,
      <<"u","r","l","l","i","b","3">>,
      <<"r","e","q","u","e","s","t","s">>,
      <<"n","u","m","p","y">>,
      <<"p","a","n","d","a","s">>,
      <<"s","c","i","p","y">>,
      <<"m","a","t","p","l","o","t","l","i","b">>,
      <<"s","e","a","b","o","r","n">>,
      <<"s","c","i","k","i","t","-","l","e","a","r","n">>,
      <<"t","e","n","s","o","r","f","l","o","w">>,
      <<"t","o","r","c","h">>,
      <<"p","y","t","o","r","c","h">>,
      <<"f","l","a","s","k">>,
      <<"d","j","a","n","g","o">>,
      <<"f","a","s","t","a","p","i">>,
      <<"p","y","d","a","n","t","i","c">>,
      <<"s","q","l","a","l","c","h","e","m","y">>,
      <<"p","s","y","c","o","p","g","2">>,
      <<"p","y","m","o","n","g","o">>,
      <<"r","e","d","i","s","-","p","y">>,
      <<"b","r","o","t","l","i","-","p","y","t","h","o","n">>,
      <<"p","y","c","p","a","r","s","e","r">>,
      <<"p","y","s","o","c","k","s">>,
      <<"p","y","y","a","m","l">>,
      <<"m","a","r","k","u","p","s","a","f","e">>,
      <<"j","i","n","j","a","2">>,
      <<"n","e","t","w","o","r","k","x">>,
      <<"g","i","t","p","y","t","h","o","n">>,
      <<"t","y","p","i","n","g","_","e","x","t","e","n","s","i","o","n","s">>
    }

\* the indicators without 'numpy'
IndicatorsWithoutNumpy == python_indicators \ {numpy}

\* the classifier over the indicators without 'numpy'
IsPythonWithoutNumpy(name) ==
    \/ \E indicator \in IndicatorsWithoutNumpy : Contains(name, indicator)
    \/ StartsWith(name, <<"p","y">>)
    \/ Contains(name, <<"-","p","y">>)
    \/ EndsWith(name, <<"-","p","y","t","h","o","n">>)
    \/ Contains(name, <<"p","y","t","h","o","n">>)

\* lines 107-111, name already lower-cased
IsPythonPackage(name) ==
    \/ \E indicator \in python_indicators : Contains(name, indicator)
    \/ StartsWith(name, <<"p","y">>)
    \/ Contains(name, <<"-","p","y">>)
    \/ EndsWith(name, <<"-","p","y","t","h","o","n">>)
    \/ Contains(name, <<"p","y","t","h","o","n">>)

\* lines 113-117 and 131-134: name==version, or the bare name when the version
\* is "unknown"
RequirementLine(pkg) ==
    IF pkg.version # unknown
    THEN pkg.name \o <<"=", "=">> \o pkg.version
    ELSE pkg.name

\* lines 89-124: the set written (sorted) to the file, and the count returned
create_requirements_txt(pkgs) ==
    LET python_packages ==
            {RequirementLine(pkgs[i]) :
                i \in {j \in 1..Len(pkgs) : IsPythonPackage(Lower(pkgs[j].name))}}
    IN  [input |-> pkgs, content |-> python_packages,
         count |-> Cardinality(python_packages)]

\* lines 128-140
create_conda_requirements(pkgs) ==
    LET conda_packages == {RequirementLine(pkgs[i]) : i \in 1..Len(pkgs)}
    IN  [input |-> pkgs, content |-> conda_packages,
         count |-> Cardinality(conda_packages)]

\* d[key] = value on a dict modelled as a function
DictSet(d, key, value) ==
    [k \in DOMAIN d \cup {key} |-> IF k = key THEN value ELSE d[k]]

\* the dict with no key
EmptyDict == [k \in {} |-> {}]

\* line 160
OsvKey(pkg) == pkg.name \o <<"@">> \o pkg.version

RECURSIVE OsvPackages(_, _)
\* lines 159-168: for pkg in packages, from index i on
OsvPackages(pkgs, d) ==
    IF pkgs = <<>> THEN d
    ELSE OsvPackages(Tail(pkgs),
             DictSet(d, OsvKey(Head(pkgs)),
                 [name |-> Head(pkgs).name, version |-> Head(pkgs).version,
                  resolved |-> Head(pkgs).url, ecosystem |-> "conda",
                  environment |-> Head(pkgs).environment,
                  platform |-> Head(pkgs).platform]))

\* lines 145-173
create_osv_lockfile(pkgs) ==
    LET lockfile_packages == OsvPackages(pkgs, EmptyDict)
    IN  [input |-> pkgs,
         content |->
             [total_packages |-> Len(pkgs),
              environments |-> {pkgs[i].environment : i \in 1..Len(pkgs)},
              platforms |-> {pkgs[i].platform : i \in 1..Len(pkgs)},
              packages |-> lockfile_packages],
         count |-> Cardinality(DOMAIN lockfile_packages)]

\* line 192
HasVersion(pkg) == pkg.version # unknown

RECURSIVE NpmFirstWins(_, _)
\* a loop that keeps the first record of a name
NpmFirstWins(pkgs, d) ==
    IF pkgs = <<>> THEN d
    ELSE NpmFirstWins(Tail(pkgs),
             IF HasVersion(Head(pkgs)) /\ Head(pkgs).name \notin DOMAIN d
             THEN DictSet(d, Head(pkgs).name,
                      [version |-> Head(pkgs).version,
                       resolved |-> Head(pkgs).url, ecosystem |-> "conda"])
             ELSE d)

RECURSIVE NpmDependencies(_, _)
\* lines 191-198: for pkg in packages
NpmDependencies(pkgs, d) ==
    IF pkgs = <<>> THEN d
    ELSE NpmDependencies(Tail(pkgs),
             IF HasVersion(Head(pkgs))
             THEN DictSet(d, Head(pkgs).name,
                      [version |-> Head(pkgs).version,
                       resolved |-> Head(pkgs).url, ecosystem |-> "conda"])
             ELSE d)

\* lines 178-203: package_lock["dependencies"] and the count returned
\* (package_lock["packages"][""]["dependencies"] maps the same names to the
\* same versions)
create_package_json_style(pkgs) ==
    LET dependencies == NpmDependencies(pkgs, EmptyDict)
    IN  [input |-> pkgs, content |-> dependencies,
         count |-> Cardinality(DOMAIN dependencies)]

-----------------------------------------------------------------------------
(* main                                                                    *)

\* {} and None: what parse_pixi_lock returns for an empty or unreadable file
EmptyMapping == [keys |-> {}, environments |-> <<>>]

\* lines 19-27: the parsed document, {} when reading or parsing raises
parse_pixi_lock(file) == IF file.parses THEN file.data ELSE EmptyMapping

\* line 217: not data
IsFalsy(d) == d.keys = {}

\* a check that never fires
NeverNoPackages(pkgs) == FALSE

\* line 223: not packages
NoPackages(pkgs) == pkgs = <<>>

\* sys.exit(1)
Exit1 == pc' = "exit" /\ exit_code' = 1

\* lines 211-213
CheckLockExists ==
    /\ pc = "start"
    /\ IF ~lock.exists
       THEN /\ Exit1
            /\ printed' = Append(printed, "pixi.lock not found")
       ELSE /\ pc' = "parse"
            /\ UNCHANGED <<printed, exit_code>>
    /\ UNCHANGED <<parse_vars, lock, data, packages, calls, emitted, written>>

\* lines 216-219
ParseLock ==
    /\ pc = "parse"
    /\ data' = parse_pixi_lock(lock)
    /\ IF IsFalsy(data')
       THEN /\ Exit1
            /\ printed' = Append(printed, "Failed to parse pixi.lock")
       ELSE /\ pc' = "extract"
            /\ UNCHANGED <<printed, exit_code>>
    /\ UNCHANGED <<parse_vars, lock, packages, calls, emitted, written>>

\* lines 222-225
ExtractPackages ==
    /\ pc = "extract"
    /\ LET r == extract_packages_from_pixi_lock(data)
       IN  /\ packages' = r.packages
           /\ calls' = calls + r.calls
           /\ IF NoPackages(r.packages)
              THEN /\ Exit1
                   /\ printed' = printed \o r.printed
                                    \o <<"No packages found in pixi.lock">>
              ELSE /\ pc' = "mkdir"
                   /\ printed' = printed \o r.printed
                   /\ UNCHANGED exit_code
    /\ UNCHANGED <<parse_vars, lock, data, emitted, written>>

\* lines 230-231
MakeOutputDir ==
    /\ pc = "mkdir"
    /\ written' = Append(written, "osv-lockfiles")
    /\ pc' = "requirements"
    /\ UNCHANGED <<parse_vars, lock, data, packages, printed, calls, emitted,
                   exit_code>>

\* one emitter call of main: the file is created and the result kept
Emit(at, file, result, next) ==
    /\ pc = at
    /\ emitted' = DictSet(emitted, file, result)
    /\ written' = Append(written, file)
    /\ pc' = next
    /\ UNCHANGED <<parse_vars, lock, data, packages, printed, calls, exit_code>>

\* line 237
WriteRequirementsTxt ==
    Emit("requirements", "requirements.txt",
         create_requirements_txt(packages), "conda_requirements")

\* line 241
WriteCondaRequirements ==
    Emit("conda_requirements", "conda-requirements.txt",
         create_conda_requirements(packages), "osv_lockfile")

\* line 245
WriteOsvLockfile ==
    Emit("osv_lockfile", "osv-lockfile.json",
         create_osv_lockfile(packages), "package_json")

\* line 249
WritePackageJsonStyle ==
    Emit("package_json", "package-lock.json",
         create_package_json_style(packages), "summary")

\* lines 253-272
WriteSummary ==
    /\ pc = "summary"
    /\ written' = Append(written, "conversion-summary.json")
    /\ pc' = "done"
    /\ exit_code' = 0
    /\ UNCHANGED <<parse_vars, lock, data, packages, printed, calls, emitted>>

-----------------------------------------------------------------------------
(* The lock documents main is run on                                       *)

EnvNames == {"default", "dev"}

PlatformNames == {"linux-64", "osx-64"}

\* the locators of the conda entries
Locators ==
    { <<"n","u","m","p","y","-","1",".","2","6","-","0",".","c","o","n","d","a">>,
      <<"h","t","t","p","s",":","/","/","h","o","s","t","/","p","a","t","h","/",
        "b","r","o","t","l","i","-","p","y","t","h","o","n","-","1",".","1",".","0",
        "-","p","y","3","9","h","f","8","8","0","3","6","b","_","3",
        ".","c","o","n","d","a">>,
      <<"p","y","=","=","1">>,
      <<"p","y","-","1">>,
      <<"z","l","i","b","-","1",".","3","-","0",".","c","o","n","d","a">>,
      <<"z","l","i","b","-","1",".","2","-","0",".","c","o","n","d","a">>,
      <<"P","y","t","h","o","n",".","t","a","r",".","b","z","2">> }

\* the locator of the entries that have a 'pypi' key instead
PypiLocator ==
    <<"r","e","q","u","e","s","t","s","-","2",".","0",".","w","h","l">>

\* one item of a document written out flat: a package entry with the
\* environment and platform it is listed under, or an environment that has
\* no 'packages' key
Items ==
    [env : EnvNames, platform : PlatformNames, kind : {"conda"}, url : Locators]
    \cup [env : EnvNames, platform : PlatformNames, kind : {"pypi"},
          url : {PypiLocator}]
    \cup [env : EnvNames, platform : {"linux-64"}, kind : {"nopackages"},
          url : {PypiLocator}]

RECURSIVE Distinct(_)
\* the distinct elements of a sequence, in order of first occurrence
Distinct(seq) ==
    IF seq = <<>> THEN <<>>
    ELSE LET front == Distinct(SubSeq(seq, 1, Len(seq) - 1))
             last == seq[Len(seq)]
         IN  IF \E i \in 1..Len(front) : front[i] = last THEN front
             ELSE Append(front, last)

\* the items of env_data['packages'] for the items listed under one environment
NestPlatforms(its) ==
    LET names == Distinct([i \in 1..Len(its) |-> its[i].platform])
    IN  [p \in 1..Len(names) |->
            LET mine == SelectSeq(its, LAMBDA x : x.platform = names[p])
            IN  [platform |-> names[p],
                 entries |-> [i \in 1..Len(mine) |->
                                 [kind |-> mine[i].kind, url |-> mine[i].url]]]]

\* the items of data['environments'] for a flat list of items
Nest(items) ==
    LET names == Distinct([i \in 1..Len(items) |-> items[i].env])
    IN  [e \in 1..Len(names) |->
            LET mine == SelectSeq(items, LAMBDA x : x.env = names[e])
                has == \A i \in 1..Len(mine) : mine[i].kind # "nopackages"
            IN  [name |-> names[e], has_packages |-> has,
                 packages |-> IF has THEN NestPlatforms(mine) ELSE <<>>]]

Documents ==
    {[keys |-> ks, environments |-> <<>>] : ks \in SUBSET {"version", "packages"}}
    \cup {[keys |-> {"version", "environments"}, environments |-> Nest(items)] :
             items \in UNION {[1..n -> Items] : n \in 0..MaxEntries}}

LockFiles ==
    {[exists |-> FALSE, parses |-> FALSE, data |-> EmptyMapping],
     [exists |-> TRUE, parses |-> FALSE, data |-> EmptyMapping]}
    \cup [exists : {TRUE}, parses : {TRUE}, data : Documents]

ParseIdle == conda_url = <<>> /\ shape = <<>> /\ info = <<>>

Init ==
    /\ ParseIdle
    /\ pc = "start"
    /\ lock \in LockFiles
    /\ data = EmptyMapping
    /\ packages = <<>>
    /\ printed = <<>>
    /\ calls = 0
    /\ emitted = EmptyDict
    /\ written = <<>>
    /\ exit_code = -1

Next ==
    \/ CheckLockExists
    \/ ParseLock
    \/ ExtractPackages
    \/ MakeOutputDir
    \/ WriteRequirementsTxt
    \/ WriteCondaRequirements
    \/ WriteOsvLockfile
    \/ WritePackageJsonStyle
    \/ WriteSummary

Spec == Init /\ [][Next]_vars

-----------------------------------------------------------------------------
(* The identifier parser on its own: one locator in, one pair out          *)

\* the pieces free-form locators are made of
Tokens ==
    { <<"a">>, <<"1">>, <<"-">>, <<".">>, <<"/">>, <<"?">>, <<":">>,
      dot_conda }

FreeLocators ==
    UNION {[1..n -> Tokens] : n \in 0..MaxTokens}

\* the pieces well-formed locators are made of
Prefixes ==
    { <<>>,
      <<"h","t","t","p","s",":","/","/","h","o","s","t","/","p","a","t","h","/">>,
      <<"l","i","n","u","x","-","6","4","/">> }

NameSegments == { <<"f","o","o">>, <<"b","a","r">>, <<"2","b">>, <<"7">> }

Versions ==
    { <<"1",".","1",".","0">>, <<"3">>, <<"1",".","0","r","c">>,
      <<"2","0","2","4",".","2","a">> }

Builds == { <<"p","y","3","9","h","f","8","8","0","3","6","b","_","3">>, <<"0">> }

Extensions == { dot_conda, dot_tar_bz2 }

\* the locator without a version
Examples ==
    { <<"h","t","t","p","s",":","/","/","h","o","s","t","/","p","a","t","h","/",
        "w","e","i","r","d","n","a","m","e",".","c","o","n","d","a">> }

WellFormedNames ==
    {Join(segs, "-") : segs \in UNION {[1..n -> NameSegments] : n \in 1..MaxNameSegs}}

MainIdle ==
    /\ pc = "idle"
    /\ lock = [exists |-> FALSE, parses |-> FALSE, data |-> EmptyMapping]
    /\ data = EmptyMapping
    /\ packages = <<>>
    /\ printed = <<>>
    /\ calls = 0
    /\ emitted = EmptyDict
    /\ written = <<>>
    /\ exit_code = -1

ParseInit ==
    /\ MainIdle
    /\ info = <<>>
    /\ \/ /\ shape = <<>>
          /\ \/ \E toks \in FreeLocators : conda_url = Flatten(toks)
             \/ conda_url \in Examples
       \/ \E prefix \in Prefixes, name \in WellFormedNames, version \in Versions,
             build \in Builds, ext \in Extensions :
             /\ shape = <<name, version>>
             /\ conda_url = prefix \o name \o <<"-">> \o version \o <<"-">>
                                \o build \o ext

\* name, version = extract_package_info(conda_url)
Parse ==
    /\ info = <<>>
    /\ pc = "idle"
    /\ info' = extract_package_info(conda_url)
    /\ UNCHANGED <<conda_url, shape, main_vars>>

ParseNext == Parse

ParseSpec == ParseInit /\ [][ParseNext]_vars

-----------------------------------------------------------------------------
(* Properties of extract_package_info, checked under ParseSpec             *)

Parsed == info # <<>>

\* C1: for every locator, the name extract_package_info returns is a
\* non-empty string.
NameNeverEmpty == Parsed => info[1] # <<>>

\* C3: for every locator whose final path segment is
\* <name>-<version>-<build>.<ext>, extract_package_info returns exactly
\* (<name>, <version>).
WellFormedRoundTrip == Parsed /\ shape # <<>> => info = shape

\* the hyphen-delimited segments of the locator that begin with a digit
DigitSegments(s) ==
    {i \in 1..Len(Split(s, "-")) : BeginsWithDigit(Split(s, "-")[i])}

FallbackResult(filename, among) ==
    LET parts == Split(filename, "-")
        hits == {i \in among : i <= Len(parts) /\ BeginsWithDigit(parts[i])}
    IN  IF hits = {} THEN <<filename, unknown>>
        ELSE LET v == CHOOSE i \in hits : \A j \in hits : j <= i
             IN  <<Join(SubSeq(parts, 1, v - 1), "-"), parts[v]>>

\* C9 as stated: when the primary pattern does not match, the last segment
\* that begins with a digit is the version and the segments before it the
\* name, and the sentinel result is returned only if no segment at all begins
\* with a digit.
FallbackLooksAtEverySegment ==
    Parsed /\ ~PatternMatches(CleanFilename(conda_url))
        => info = FallbackResult(CleanFilename(conda_url),
                                 1..Len(CleanFilename(conda_url)) + 1)

\* C9 as amended: when the primary pattern does not match, the last segment
\* other than the first that begins with a digit is the version and the
\* segments before it the name, and the sentinel result is returned only if
\* no segment other than the first begins with a digit.
FallbackSkipsFirstSegment ==
    Parsed /\ ~PatternMatches(CleanFilename(conda_url))
        => info = FallbackResult(CleanFilename(conda_url),
                                 2..Len(CleanFilename(conda_url)) + 1)

WitnessFallbackSkipsFirstSegment ==
    /\ Parsed
    /\ ~PatternMatches(CleanFilename(conda_url))
    /\ Cardinality(DigitSegments(CleanFilename(conda_url))) >= 2
    /\ 1 \in DigitSegments(CleanFilename(conda_url))
    /\ info[2] # unknown

-----------------------------------------------------------------------------
(* Properties of main and of what it calls, checked under Spec             *)

\* extract_packages_from_pixi_lock has returned to main
ExtractionDone == pc \notin {"start", "parse", "extract"} /\ ~IsFalsy(data)

Ran(file) == file \in DOMAIN emitted

\* the places <<environment, platform, entry>> of the entries of a document
Places(d) ==
    UNION {UNION {{<<e, p, i>> :
                      i \in 1..Len(d.environments[e].packages[p].entries)} :
                  p \in 1..Len(d.environments[e].packages)} :
           e \in 1..Len(d.environments)}

EntryAt(d, pl) == d.environments[pl[1]].packages[pl[2]].entries[pl[3]]

CondaPlaces(d) == {pl \in Places(d) : EntryAt(d, pl).kind = "conda"}

\* document order: environment, then platform, then entry
Precedes(a, b) ==
    \/ a[1] < b[1]
    \/ a[1] = b[1] /\ a[2] < b[2]
    \/ a[1] = b[1] /\ a[2] = b[2] /\ a[3] < b[3]

\* the index in document order of a conda-tagged entry among such entries
Rank(d, pl) == Cardinality({q \in CondaPlaces(d) : Precedes(q, pl)}) + 1

EveryEnvironmentHasPackages(d) ==
    /\ "environments" \in d.keys
    /\ \A e \in 1..Len(d.environments) : d.environments[e].has_packages

NumpyNotInRequirements ==
    Ran("requirements.txt")
        => \A i \in 1..Len(packages) :
               packages[i].name = numpy
                   => RequirementLine(packages[i])
                          \notin emitted["requirements.txt"].content

\* C4 as amended: a package named 'numpy' is classified interpreted ('numpy'
\* is in the indicator list), so create_requirements_txt puts every record
\* named 'numpy' into the requirements.txt set.
NumpyInRequirements ==
    Ran("requirements.txt")
        => \A i \in 1..Len(packages) :
               packages[i].name = numpy
                   => RequirementLine(packages[i])
                          \in emitted["requirements.txt"].content

WitnessNumpyInRequirements ==
    /\ Ran("requirements.txt")
    /\ \E i \in 1..Len(packages) : packages[i].name = numpy
    /\ emitted["requirements.txt"].count = 1

\* C5: for a document without the 'environments' key the function returns an
\* empty list and prints the no-environments message, and the identifier
\* parser is not called; the call returns to main, which exits with 1.  The
\* same holds of the function on the empty mapping, which main does not pass
\* on to it.
NoEnvironmentsSignalled ==
    /\ ExtractionDone /\ "environments" \notin data.keys
           => /\ packages = <<>>
              /\ \E i \in 1..Len(printed) : printed[i] = no_environments
              /\ calls = 0
              /\ pc = "exit"
              /\ exit_code = 1
    /\ pc = "exit" /\ IsFalsy(data)
           => extract_packages_from_pixi_lock(data)
                  = [packages |-> <<>>, printed |-> <<no_environments>>,
                     calls |-> 0]

WitnessNoEnvironmentsSignalled ==
    /\ ExtractionDone
    /\ "environments" \notin data.keys
    /\ "packages" \in data.keys
    /\ pc = "exit"

OutputFiles ==
    {"requirements.txt", "conda-requirements.txt", "osv-lockfile.json",
     "package-lock.json"}

\* the lock file is missing, parses to a falsy document or yields no record
FailingInput ==
    \/ ~lock.exists
    \/ IsFalsy(parse_pixi_lock(lock))
    \/ extract_packages_from_pixi_lock(parse_pixi_lock(lock)).packages = <<>>

\* C6: nothing is written before the extraction has ended with a non-empty
\* record list; on a failing input no emitter is called and nothing is
\* written, and the run stops only with exit code 1; on any other input the
\* run never exits with 1, and at its end all four emitters have been called
\* on the same complete record list.
NoOutputBeforeExtraction ==
    /\ written # <<>> \/ emitted # EmptyDict
           => /\ ExtractionDone
              /\ packages # <<>>
              /\ packages = extract_packages_from_pixi_lock(data).packages
    /\ FailingInput
           => /\ written = <<>>
              /\ emitted = EmptyDict
              /\ pc \in {"start", "parse", "extract", "exit"}
              /\ pc = "exit" <=> exit_code = 1
    /\ ~FailingInput => pc # "exit" /\ exit_code # 1
    /\ pc = "done"
           => /\ DOMAIN emitted = OutputFiles
              /\ \A f \in OutputFiles : emitted[f].input = packages
              /\ Len(written) = 6

WitnessNoOutputBeforeExtraction ==
    /\ pc = "done"
    /\ DOMAIN emitted = OutputFiles
    /\ Len(packages) = 2

\* the (name, version) pairs of the records with an index in among
Pairs(pkgs, among) == {<<pkgs[i].name, pkgs[i].version>> : i \in among}

\* C8: the count create_conda_requirements returns is the number of distinct
\* (name, version) pairs among the records, and the count
\* create_requirements_txt returns is the number of distinct (name, version)
\* pairs among the records classified interpreted.
CountsAreDistinctPairs ==
    /\ Ran("conda-requirements.txt")
           => emitted["conda-requirements.txt"].count
                  = Cardinality(Pairs(packages, 1..Len(packages)))
    /\ Ran("requirements.txt")
           => emitted["requirements.txt"].count
                  = Cardinality(Pairs(packages,
                        {i \in 1..Len(packages) :
                            IsPythonPackage(Lower(packages[i].name))}))

\* the indexes of the records that have a version
Versioned(pkgs) == {i \in 1..Len(pkgs) : pkgs[i].version # unknown}

\* C10: the count create_package_json_style returns is the number of distinct
\* names with a record whose version is not "unknown"; the manifest has these
\* names as keys, each with the version and locator of the last such record
\* in list order; the record list is the one main still holds.
NpmManifestKeyedByName ==
    Ran("package-lock.json")
        => LET r == emitted["package-lock.json"]
               names == {packages[i].name : i \in Versioned(packages)}
           IN  /\ r.input = packages
               /\ r.count = Cardinality(names)
               /\ DOMAIN r.content = names
               /\ \A n \in names :
                     LET mine == {i \in Versioned(packages) : packages[i].name = n}
                         last == CHOOSE i \in mine : \A j \in mine : j <= i
                     IN  /\ r.content[n].version = packages[last].version
                         /\ r.content[n].resolved = packages[last].url

WitnessNpmManifestKeyedByName ==
    /\ Ran("package-lock.json")
    /\ Len(packages) = 2
    /\ packages[1].name = packages[2].name
    /\ packages[1].version # packages[2].version
    /\ Versioned(packages) = {1, 2}
    /\ emitted["package-lock.json"].count = 1

====
